---- MODULE Spec2Model ----
(***************************************************************************)
(* The /hackrx/run request pipeline of backend/app: the bearer-token       *)
(* middleware (main.py), the route handler run_query (api.py) and the      *)
(* collaborators it calls (extractor.py, chunker.py, embedder.py).         *)
(*                                                                         *)
(* Python strings that the code parses (the Authorization header, the URL  *)
(* path, file paths, archive entry names) are sequences of one-character   *)
(* strings, so that split, strip, startswith, endswith, lower and          *)
(* os.path.splitext are computed as the code computes them.                *)
(***************************************************************************)
EXTENDS Integers, Sequences, FiniteSets, TLC

(* ------------------------------ bounds -------------------------------- *)

\* Longest Authorization header, counted in pieces of HeaderPieces.
MaxHeaderPieces == 5
\* Longest questions list of a request.
MaxQuestions == 2
\* Most pages of a served document.
MaxPages == 2
\* Most entries of a served archive.
MaxZipEntries == 2

(* ------------------------- string primitives -------------------------- *)

\* str.startswith
StartsWith(s, p) == Len(s) >= Len(p) /\ SubSeq(s, 1, Len(p)) = p

\* str.endswith
EndsWith(s, p) == Len(s) >= Len(p) /\ SubSeq(s, Len(s) - Len(p) + 1, Len(s)) = p

\* str.find, 1-based; 0 when sep does not occur
Find(s, sep) ==
    LET hits == {i \in 1..(Len(s) - Len(sep) + 1) : SubSeq(s, i, i + Len(sep) - 1) = sep}
    IN IF hits = {} THEN 0 ELSE CHOOSE i \in hits : \A j \in hits : i <= j

\* str.rfind of one character, 1-based; 0 when c does not occur
RFind(s, c) ==
    LET hits == {i \in 1..Len(s) : s[i] = c}
    IN IF hits = {} THEN 0 ELSE CHOOSE i \in hits : \A j \in hits : i >= j

\* str.split(sep) with an explicit, non-empty separator
RECURSIVE Split(_, _)
Split(s, sep) ==
    LET i == Find(s, sep)
    IN IF i = 0 THEN <<s>>
       ELSE <<SubSeq(s, 1, i - 1)>> \o Split(SubSeq(s, i + Len(sep), Len(s)), sep)

Whitespace == {" "}

\* str.strip()
Strip(s) ==
    LET keep == {i \in 1..Len(s) : s[i] \notin Whitespace}
    IN IF keep = {} THEN <<>>
       ELSE SubSeq(s, CHOOSE i \in keep : \A j \in keep : i <= j,
                      CHOOSE i \in keep : \A j \in keep : i >= j)

\* str.lower() on the letters that occur in the modelled inputs
LowerChar(c) ==
    CASE c = "P" -> "p" [] c = "D" -> "d" [] c = "F" -> "f"
      [] c = "T" -> "t" [] c = "X" -> "x" [] c = "Z" -> "z"
      [] c = "I" -> "i" [] c = "B" -> "b" [] OTHER -> c

Lower(s) == [i \in 1..Len(s) |-> LowerChar(s[i])]

\* os.path.splitext(p)[1]: the text from the last dot of the last path
\* component, unless that component has only leading dots before it
SplitExt(p) ==
    LET sepIndex == RFind(p, "/")
        dotIndex == RFind(p, ".")
    IN IF dotIndex > sepIndex
          /\ \E k \in (sepIndex + 1)..(dotIndex - 1) : p[k] # "."
       THEN SubSeq(p, dotIndex, Len(p))
       ELSE <<>>

\* the sequences over S of length at most n
SeqsUpTo(S, n) == UNION {[1..k -> S] : k \in 0..n}

RECURSIVE Flatten(_)
Flatten(ss) == IF ss = <<>> THEN <<>> ELSE Head(ss) \o Flatten(Tail(ss))

(* --------------------------- configuration ---------------------------- *)

\* settings.BEARER_TOKEN
BEARER_TOKEN == <<"t", "k">>

BearerSp == <<"B", "e", "a", "r", "e", "r", " ">>

(* --------------------------- authentication --------------------------- *)

Absent == [present |-> FALSE]
Present(v) == [present |-> TRUE, value |-> v]

\* Python's "not auth_header": None or the empty string
Falsy(h) == ~h.present \/ h.value = <<>>

Detail(text) == [prefix |-> "", text |-> text, arg |-> <<>>]

\* authenticate_request: the response it returns itself, or "next"
MiddlewareVerdict(h) ==
    IF Falsy(h) \/ ~StartsWith(h.value, BearerSp) THEN 401
    ELSE IF Strip(Split(h.value, BearerSp)[2]) # BEARER_TOKEN THEN 403
    ELSE 0

MiddlewareResponse(code) ==
    IF code = 401
    THEN [status |-> 401, detail |-> Detail("Missing or invalid Authorization header")]
    ELSE [status |-> 403, detail |-> Detail("Invalid token provided")]

\* verify_token: the detail of the HTTPException(401) it raises, or "" when it returns
VerifyTokenVerdict(h) ==
    IF Falsy(h) \/ ~StartsWith(h.value, BearerSp) THEN "Missing or invalid token"
    ELSE IF Split(h.value, <<" ">>)[2] # BEARER_TOKEN THEN "Invalid token"
    ELSE ""

(* ------------------------------- inputs ------------------------------- *)

HeaderPieces == {BearerSp, <<" ">>, BEARER_TOKEN, <<"x">>}

\* A header field value reaches the application without surrounding
\* whitespace; inside, anything may follow anything.
HeaderValues ==
    {v \in {Flatten(ps) : ps \in SeqsUpTo(HeaderPieces, MaxHeaderPieces)} :
        v = <<>> \/ (v[1] \notin Whitespace /\ v[Len(v)] \notin Whitespace)}

Headers == {Absent} \cup {Present(v) : v \in HeaderValues}

GoodHeader == Present(BearerSp \o BEARER_TOKEN)

DotPdf == <<".", "p", "d", "f">>
DotDocx == <<".", "d", "o", "c", "x">>
DotJpg == <<".", "j", "p", "g">>
DotJpeg == <<".", "j", "p", "e", "g">>
DotPng == <<".", "p", "n", "g">>
DotXlsx == <<".", "x", "l", "s", "x">>
DotZip == <<".", "z", "i", "p">>
DotEml == <<".", "e", "m", "l">>
DotMsg == <<".", "m", "s", "g">>
DotTxt == <<".", "t", "x", "t">>

\* the extensions extract_text_only has a branch for
SupportedExts ==
    {DotPdf, DotDocx, DotJpg, DotJpeg, DotPng, DotXlsx, DotZip, DotEml, DotMsg}

UrlExts ==
    SupportedExts \cup
    {DotTxt, <<".", "T", "X", "T">>, <<".", "P", "D", "F">>, <<".", "Z", "i", "p">>,
     <<".">>, <<".", "p", "d", "f", "x">>}

\* urlparse(documents).path of the requests modelled
UrlPaths ==
    {<<"/", "d">> \o e : e \in UrlExts \cup {<<>>}} \cup
    {<<"/", "v", ".", "1", "/", "d">>, <<"/", ".", "z", "i", "p">>,
     <<"/", "d", ".", "t", "x", "t", "/", "e">>}

Questions == {"q1", "q2"}
QuestionLists == SeqsUpTo(Questions, MaxQuestions)

\* what a completion call may return
AnswerTexts == {"a1", "a2"}

\* the text of a page: blank (no text layer) or some short text
PageTexts == {"", "text"}

EntryNames ==
    {<<"a">> \o DotPdf, <<"B", ".", "P", "D", "F">>, <<"n">> \o DotTxt, <<"p", "d", "f">>}

Garbage == [kind |-> "garbage"]
Doc(pages) == [kind |-> "doc", pages |-> pages]
Zip(entries) == [kind |-> "zip", entries |-> entries]

DocBodies == {Doc(ps) : ps \in SeqsUpTo(PageTexts, MaxPages) \ {<<>>}}
ZipBodies == {Zip(es) : es \in SeqsUpTo(EntryNames, MaxZipEntries)}

\* what the remote server may send back for a document URL
Bodies == {Garbage} \cup DocBodies \cup ZipBodies

Requests == {"r1", "r2"}

(* -------------------------------- state ------------------------------- *)

VARIABLES
    pc,           \* where each request is in its handling
    request,      \* each request's Authorization header and payload
    local,        \* run_query's and extract_text_only's local variables
    response,     \* the HTTP response sent for each request
    calls,        \* every collaborator invocation made for each request, in order
    completions,  \* every completion obtained for each request, in order
    raised,       \* every exception raised inside run_query's try block, per request
    fs,           \* the temporary directory: path -> what is stored there
    writers,      \* path -> the requests that have written it
    indexes,      \* indexes/: id -> who created it and the files in it
    tmpCount,     \* temporary names handed out so far
    uuidCount     \* index directory ids handed out so far

vars == <<pc, request, local, response, calls, completions, raised, fs, writers,
          indexes, tmpCount, uuidCount>>

NoStore == [isNone |-> TRUE, size |-> 0]

NoRequest == [header |-> Absent, documents |-> <<>>, questions |-> <<>>]

NoLocal ==
    [file_path |-> <<>>, source |-> <<>>, read_from |-> "", text_blocks |-> <<>>, chunks |-> <<>>,
     vectorstore |-> NoStore, index_dir |-> 0, answers |-> <<>>]

NoResponse == [status |-> 0]

Init ==
    /\ pc = [r \in Requests |-> "new"]
    /\ request = [r \in Requests |-> NoRequest]
    /\ local = [r \in Requests |-> NoLocal]
    /\ response = [r \in Requests |-> NoResponse]
    /\ calls = [r \in Requests |-> <<>>]
    /\ completions = [r \in Requests |-> <<>>]
    /\ raised = [r \in Requests |-> <<>>]
    /\ fs = <<>>
    /\ writers = <<>>
    /\ indexes = <<>>
    /\ tmpCount = 0
    /\ uuidCount = 0

Call(fn, arg) == [fn |-> fn, arg |-> arg]

Exc(text, arg) == [text |-> text, arg |-> arg]

\* the except clause answering with a fixed text instead of str(e)
ErrorResponseGeneric(e) ==
    [status |-> 500,
     detail |-> [prefix |-> "Processing failed: ", text |-> "internal error", arg |-> <<>>]]

\* the except clause swallowing the exception and answering with no answers
ErrorResponseSwallowed(e) == [status |-> 200, answers |-> <<>>]

\* run_query's except clause: HTTPException(500, "Processing failed: " + str(e))
ErrorResponse(e) ==
    [status |-> 500,
     detail |-> [prefix |-> "Processing failed: ", text |-> e.text, arg |-> e.arg]]

\* the return losing the last answer
SuccessResponseDropsLast(answers) ==
    [status |-> 200, answers |-> SubSeq(answers, 1, Len(answers) - 1)]

\* run_query's return: QueryResponse(answers=answers)
SuccessResponse(answers) == [status |-> 200, answers |-> answers]

\* str() of the HTTPException(401, detail) that verify_token raises
HttpExc401(detail) ==
    Exc(IF detail = "Invalid token" THEN "401: Invalid token"
        ELSE "401: Missing or invalid token", <<>>)

\* the request ends with resp
Finish(r, resp) ==
    /\ pc' = [pc EXCEPT ![r] = "done"]
    /\ response' = [response EXCEPT ![r] = resp]

\* the except clause starting the pipeline again instead of answering
RaiseRetries(r, e) ==
    /\ pc' = [pc EXCEPT ![r] = "verify"]
    /\ raised' = [raised EXCEPT ![r] = Append(@, e)]
    /\ UNCHANGED response

\* e is raised inside the try block of run_query: the except clause answers
Raise(r, e) ==
    /\ Finish(r, ErrorResponse(e))
    /\ raised' = [raised EXCEPT ![r] = Append(@, e)]

\* the request goes on to stage
Goto(r, stage) ==
    /\ pc' = [pc EXCEPT ![r] = stage]
    /\ UNCHANGED <<response, raised>>

Invoke(r, cs) == calls' = [calls EXCEPT ![r] = @ \o cs]

(* ------------------------------- arrival ------------------------------ *)

\* A client sends POST {API_PREFIX}/hackrx/run; the middleware sees its headers.
Arrive(r, H) ==
    /\ pc[r] = "new"
    /\ \E h \in H : request' = [request EXCEPT ![r].header = h]
    /\ pc' = [pc EXCEPT ![r] = "middleware"]
    /\ UNCHANGED <<local, response, calls, completions, raised, fs, writers, indexes,
                   tmpCount, uuidCount>>

\* authenticate_request: the path starts with API_PREFIX, so the header is
\* checked; call_next hands the request to the route, which reads the body
\* into payload
Middleware(r, U, Q) ==
    /\ pc[r] = "middleware"
    /\ LET code == MiddlewareVerdict(request[r].header)
       IN IF code = 0
          THEN /\ \E u \in U, q \in Q :
                     request' = [request EXCEPT ![r].documents = u, ![r].questions = q]
               /\ Goto(r, "verify")
          ELSE /\ Finish(r, MiddlewareResponse(code))
               /\ UNCHANGED <<request, raised>>
    /\ UNCHANGED <<local, calls, completions, fs, writers, indexes, tmpCount, uuidCount>>

\* run_query, step 1: verify_token inside the try block; the HTTPException it
\* raises is an Exception, so the except clause turns it into a 500
VerifyToken(r) ==
    /\ pc[r] = "verify"
    /\ Invoke(r, <<Call("verify_token", "")>>)
    /\ LET why == VerifyTokenVerdict(request[r].header)
       IN IF why = "" THEN Goto(r, "extract")
          ELSE Raise(r, HttpExc401(why))
    /\ UNCHANGED <<request, local, completions, fs, writers, indexes,
                   tmpCount, uuidCount>>

(* ------------------------------ extraction ---------------------------- *)

TmpDir == <<"/", "t", "m", "p">>

\* the temporary file created without its suffix
TmpPathNoSuffix(n, suffix) == TmpDir \o <<"/", "t", "m", "p", ToString(n)>>

\* tempfile.NamedTemporaryFile(delete=False, suffix=...).name: a name no
\* existing file has
TmpPath(n, suffix) == TmpDir \o <<"/", "t", "m", "p", ToString(n)>> \o suffix

\* a file is written at path by request r
WriteFile(r, path, body) ==
    /\ fs' = [p \in DOMAIN fs \cup {path} |->
                 IF p = path THEN [owner |-> r, body |-> body] ELSE fs[p]]
    /\ writers' = [p \in DOMAIN writers \cup {path} |->
                      IF p = path
                      THEN (IF p \in DOMAIN writers THEN writers[p] ELSE {}) \cup {r}
                      ELSE writers[p]]

\* extract_text_only line 211-212: the suffix asked of download_file
DefaultSuffix(url) ==
    LET ext == Lower(SplitExt(url)) IN IF ext # <<>> THEN ext ELSE DotPdf

\* download_file line 25-28: the suffix of the temporary file
DownloadSuffix(url, default_suffix) ==
    LET ext == SplitExt(url) IN IF ext # <<>> THEN ext ELSE default_suffix

\* run_query step 2 begins: extract_text_only downloads the document
\* (documents is an HttpUrl, so it always is a URL)
Download(r, B) ==
    /\ pc[r] = "extract"
    /\ Invoke(r, <<Call("extract_text_only", ""), Call("download_file", "")>>)
    /\ \E ok \in BOOLEAN, body \in B :
          IF ok
          THEN LET url == request[r].documents
                   path == TmpPath(tmpCount + 1, DownloadSuffix(url, DefaultSuffix(url)))
               IN /\ WriteFile(r, path, body)
                  /\ tmpCount' = tmpCount + 1
                  /\ local' = [local EXCEPT ![r].file_path = path, ![r].source = path]
                  /\ Goto(r, "convert")
          ELSE /\ Raise(r, Exc("download failed", <<>>))
               /\ UNCHANGED <<fs, writers, tmpCount, local>>
    /\ UNCHANGED <<request, completions, indexes, uuidCount>>

\* the converter extract_text_only picks for an extension, "" for none
ConverterFor(ext) ==
    CASE ext = DotDocx -> "docx_to_pdf"
      [] ext \in {DotJpg, DotJpeg, DotPng} -> "image_to_pdf"
      [] ext = DotXlsx -> "xlsx_to_pdf"
      [] ext = DotZip -> "process_pdf_zip"
      [] ext = DotEml -> "eml_to_pdf"
      [] ext = DotMsg -> "msg_to_pdf"
      [] OTHER -> ""

\* the entry test without lower()
IsPdfEntryCaseSensitive(name) == EndsWith(name, DotPdf)

\* process_pdf_zip line 140: file.lower().endswith(".pdf")
IsPdfEntry(name) == EndsWith(Lower(name), DotPdf)

\* process_pdf_zip line 139-143: the first entry of the listing that is a PDF,
\* 0 when there is none
FirstPdfEntry(entries) ==
    LET hits == {i \in 1..Len(entries) : IsPdfEntry(entries[i])}
    IN IF hits = {} THEN 0 ELSE CHOOSE i \in hits : \A j \in hits : i <= j

\* z.extract(file, tempfile.gettempdir()): the entry's own name under the
\* temporary directory
ExtractedPath(name) == TmpDir \o <<"/">> \o name

\* what a converter writes for a well-formed input: an image becomes a page
\* with no text layer, the text formats keep their text
ConvertedBody(fn, body) ==
    IF fn = "image_to_pdf" THEN Doc(<<"">>)
    ELSE IF body.kind = "doc" THEN body
    ELSE Doc(<<"text">>)

\* eml_to_pdf reads any bytes as text; the other converters need a file of
\* their format
ConverterAccepts(fn, body) == fn = "eml_to_pdf" \/ body.kind = "doc"

\* extract_text_only line 215-229: bring the downloaded file to a PDF
Convert(r) ==
    /\ pc[r] = "convert"
    /\ LET path == local[r].file_path
           ext == Lower(SplitExt(path))
           fn == ConverterFor(ext)
           body == fs[path].body
       IN IF fn = "process_pdf_zip"
          THEN /\ Invoke(r, <<Call(fn, "")>>)
               /\ tmpCount' = tmpCount
               /\ IF body.kind # "zip"
                  THEN /\ Raise(r, Exc("File is not a zip file", <<>>))
                       /\ UNCHANGED <<fs, writers, local>>
                  ELSE LET i == FirstPdfEntry(body.entries)
                       IN IF i = 0
                          THEN /\ Raise(r, Exc("No PDF found in zip file.", <<>>))
                               /\ UNCHANGED <<fs, writers, local>>
                          ELSE /\ WriteFile(r, ExtractedPath(body.entries[i]), Doc(<<"text">>))
                               /\ local' = [local EXCEPT
                                              ![r].file_path = ExtractedPath(body.entries[i])]
                               /\ Goto(r, "load")
          ELSE IF fn # ""
          THEN /\ Invoke(r, <<Call(fn, "")>>)
               /\ \E ok \in BOOLEAN :
                     IF ok /\ ConverterAccepts(fn, body)
                     THEN /\ WriteFile(r, TmpPath(tmpCount + 1, DotPdf), ConvertedBody(fn, body))
                          /\ tmpCount' = tmpCount + 1
                          /\ local' = [local EXCEPT
                                         ![r].file_path = TmpPath(tmpCount + 1, DotPdf)]
                          /\ Goto(r, "load")
                     ELSE /\ Raise(r, Exc("conversion failed", <<>>))
                          /\ UNCHANGED <<fs, writers, tmpCount, local>>
          ELSE IF ext # DotPdf
          THEN /\ Raise(r, Exc("Unsupported file type: ", ext))
               /\ UNCHANGED <<calls, fs, writers, tmpCount, local>>
          ELSE /\ Goto(r, "load")
               /\ UNCHANGED <<calls, fs, writers, tmpCount, local>>
    /\ UNCHANGED <<request, completions, indexes, uuidCount>>

\* extract_text_only line 232-240: PyMuPDFLoader(file_path).load() reads what
\* is at file_path now
LoadPdf(r) ==
    /\ pc[r] = "load"
    /\ Invoke(r, <<Call("PyMuPDFLoader", "")>>)
    /\ LET file == fs[local[r].file_path]
       IN IF file.body.kind = "doc"
          THEN /\ local' = [local EXCEPT ![r].text_blocks = file.body.pages,
                                         ![r].read_from = file.owner]
               /\ Goto(r, "chunk")
          ELSE /\ Raise(r, Exc("PDF parsing failed", <<>>))
               /\ UNCHANGED local
    /\ UNCHANGED <<request, completions, fs, writers, indexes, tmpCount, uuidCount>>

(* ------------------------ chunking and embedding ---------------------- *)

\* the splitter's output for pages shorter than CHUNK_SIZE: one chunk per
\* page that has text, none for a blank page
SplitDocuments(docs) == SelectSeq(docs, LAMBDA t : t # "")

\* run_query step 3: chunk_text_only, a computation on the text in memory
Chunk(r) ==
    /\ pc[r] = "chunk"
    /\ Invoke(r, <<Call("chunk_text_only", "")>>)
    /\ local' = [local EXCEPT ![r].chunks = SplitDocuments(local[r].text_blocks)]
    /\ Goto(r, "embed")
    /\ UNCHANGED <<request, completions, fs, writers, indexes, tmpCount, uuidCount>>

\* "None" or "index": how a vectorstore argument is recorded in calls
StoreArg(v) == IF v.isNone THEN "None" ELSE "index"

\* run_query step 4: embed_chunks returns None for no chunks, without calling
\* the embedding service; otherwise FAISS.from_documents embeds every chunk
Embed(r) ==
    /\ pc[r] = "embed"
    /\ IF local[r].chunks = <<>>
       THEN /\ Invoke(r, <<Call("embed_chunks", "")>>)
            /\ local' = [local EXCEPT ![r].vectorstore = NoStore]
            /\ Goto(r, "save")
       ELSE /\ Invoke(r, <<Call("embed_chunks", ""), Call("OpenAIEmbeddings", "")>>)
            /\ \E ok \in BOOLEAN :
                  IF ok
                  THEN /\ local' = [local EXCEPT ![r].vectorstore =
                                      [isNone |-> FALSE, size |-> Len(local[r].chunks)]]
                       /\ Goto(r, "save")
                  ELSE /\ Raise(r, Exc("embedding failed", <<>>))
                       /\ UNCHANGED local
    /\ UNCHANGED <<request, completions, fs, writers, indexes, tmpCount, uuidCount>>

(* --------------------------- index persistence ------------------------ *)

IndexFiles == {"index.faiss", "index.pkl"}

\* os.makedirs(index_dir, exist_ok=True) by request r
MakeDirs(dirs, id, r) ==
    [d \in DOMAIN dirs \cup {id} |->
        IF d \in DOMAIN dirs
        THEN (IF d = id THEN [dirs[d] EXCEPT !.creators = @ \cup {r}] ELSE dirs[d])
        ELSE [creators |-> {r}, files |-> {}]]

\* run_query step 5: a fresh indexes/<uuid4> is created, then save_faiss_index
\* is called with whatever embed_chunks returned; save_local on None raises
\* AttributeError, on an index it writes the index files to the local disk
SaveIndex(r) ==
    /\ pc[r] = "save"
    /\ Invoke(r, <<Call("save_faiss_index", StoreArg(local[r].vectorstore))>>)
    /\ LET id == uuidCount + 1
           made == MakeDirs(indexes, id, r)
       IN /\ uuidCount' = id
          /\ local' = [local EXCEPT ![r].index_dir = id]
          /\ IF local[r].vectorstore.isNone
             THEN /\ indexes' = made
                  /\ Raise(r, Exc("'NoneType' object has no attribute 'save_local'", <<>>))
             ELSE /\ indexes' = [made EXCEPT ![id].files = IndexFiles]
                  /\ Goto(r, "query")
    /\ UNCHANGED <<request, completions, fs, writers, tmpCount>>

(* ------------------------------ answering ----------------------------- *)

\* run_query step 6: query_pipeline(payload.questions, vectorstore) is entered
QueryPipeline(r) ==
    /\ pc[r] = "query"
    /\ Invoke(r, <<Call("query_pipeline", StoreArg(local[r].vectorstore))>>)
    /\ Goto(r, "answer")
    /\ UNCHANGED <<request, local, completions, fs, writers, indexes, tmpCount, uuidCount>>

\* query_pipeline: the next question, in order, gets one completion call; a
\* failing call raises out of query_pipeline
Completion(r) ==
    /\ pc[r] = "answer"
    /\ Len(local[r].answers) < Len(request[r].questions)
    /\ LET q == request[r].questions[Len(local[r].answers) + 1]
       IN /\ Invoke(r, <<Call("completion", q)>>)
          /\ \E ok \in BOOLEAN, a \in AnswerTexts :
                IF ok
                THEN /\ local' = [local EXCEPT ![r].answers = Append(@, a)]
                     /\ completions' = [completions EXCEPT
                                          ![r] = Append(@, [question |-> q, answer |-> a])]
                     /\ Goto(r, "answer")
                ELSE /\ Raise(r, Exc("completion failed", <<>>))
                     /\ UNCHANGED <<local, completions>>
    /\ UNCHANGED <<request, fs, writers, indexes, tmpCount, uuidCount>>

\* query_pipeline returns the answers and run_query returns the response
Respond(r) ==
    /\ pc[r] = "answer"
    /\ Len(local[r].answers) = Len(request[r].questions)
    /\ Finish(r, SuccessResponse(local[r].answers))
    /\ UNCHANGED <<request, local, calls, completions, raised, fs, writers, indexes,
                   tmpCount, uuidCount>>

(* ---------------------------- specifications -------------------------- *)

\* the steps of request r once it has arrived
Step(r, U, Q, B) ==
    \/ Middleware(r, U, Q)
    \/ VerifyToken(r)
    \/ Download(r, B)
    \/ Convert(r)
    \/ LoadPdf(r)
    \/ Chunk(r)
    \/ Embed(r)
    \/ SaveIndex(r)
    \/ QueryPipeline(r)
    \/ Completion(r)
    \/ Respond(r)

\* One request at a time, with every modelled header, URL, body and
\* questions list.
Next == \E r \in {"r1"} : Arrive(r, Headers) \/ Step(r, UrlPaths, QuestionLists, Bodies)

Spec == Init /\ [][Next]_vars

\* documents that reach every kind of shared path
SomeUrlPaths == {<<"/", "d">> \o DotPdf, <<"/", "d">> \o DotZip, <<"/", "d">> \o DotPng}
SomeBodies ==
    {Doc(<<"text">>), Doc(<<"">>), Zip(<<<<"a">> \o DotPdf>>), Zip(<<<<"n">> \o DotTxt>>)}

\* Two requests served at once by worker processes that share the temporary
\* directory and indexes/, interleaved at the calls each handler makes; the
\* schedules of a single event loop, which runs one run_query to its end
\* before the next, are among them.
NextConcurrent ==
    \E r \in Requests :
        Arrive(r, {GoodHeader}) \/ Step(r, SomeUrlPaths, {<<"q1">>}, SomeBodies)

SpecConcurrent == Init /\ [][NextConcurrent]_vars

(* -------------------------------- claims ------------------------------ *)

Done(r) == pc[r] = "done"

Fns(r) == {calls[r][i].fn : i \in 1..Len(calls[r])}

\* the calls run_query makes, one per stage, in the order of its text
StageOrder ==
    <<"verify_token", "extract_text_only", "chunk_text_only", "embed_chunks",
      "save_faiss_index", "query_pipeline">>

StageNames == {StageOrder[i] : i \in 1..Len(StageOrder)}

\* the stages request r has entered, in the order it entered them
StageTrace(r) ==
    LET t == SelectSeq(calls[r], LAMBDA c : c.fn \in StageNames)
    IN [i \in 1..Len(t) |-> t[i].fn]

IsPrefix(s, t) == Len(s) <= Len(t) /\ s = SubSeq(t, 1, Len(s))

\* every collaborator behind the token check
Downstream(r) == Fns(r) \ {"verify_token"}

\* the header carries no acceptable credentials: it is absent, is not a
\* "Bearer " header, or what follows "Bearer " is, surrounding blanks aside,
\* not the configured token
InvalidCredentials(h) ==
    \/ ~h.present
    \/ ~StartsWith(h.value, BearerSp)
    \/ Strip(SubSeq(h.value, Len(BearerSp) + 1, Len(h.value))) # BEARER_TOKEN

\* C1: a request with a missing, malformed or wrong bearer token is answered
\* 401 or 403, never 200 or 500, and no collaborator behind the token check
\* (download, conversion, parsing, chunking, embedding, persistence,
\* completion) is invoked for it.
C1_InvalidTokenRejected ==
    \A r \in Requests :
        (pc[r] # "new" /\ InvalidCredentials(request[r].header)) =>
            /\ Downstream(r) = {}
            /\ Done(r) => response[r].status \in {401, 403}

\* C2: a 200 response to a non-empty questions list has one answer per
\* question, and the answer at each position is the completion obtained for
\* the question at that position.
C2_AnswersMatchQuestions ==
    \A r \in Requests :
        (response[r].status = 200 /\ request[r].questions # <<>>) =>
            /\ Len(response[r].answers) = Len(request[r].questions)
            /\ Len(completions[r]) = Len(request[r].questions)
            /\ \A i \in 1..Len(request[r].questions) :
                  /\ completions[r][i].question = request[r].questions[i]
                  /\ response[r].answers[i] = completions[r][i].answer

C2_Witness ==
    \E r \in Requests :
        /\ response[r].status = 200
        /\ request[r].questions = <<"q1", "q2">>
        /\ response[r].answers = <<"a2", "a1">>

\* how many stages have been entered when a request is at pc
StagesEntered(at) ==
    CASE at \in {"new", "middleware", "verify"} -> 0
      [] at = "extract" -> 1
      [] at \in {"convert", "load", "chunk"} -> 2
      [] at = "embed" -> 3
      [] at = "save" -> 4
      [] at = "query" -> 5
      [] at = "answer" -> 6
      [] OTHER -> 0

\* C3: a request enters the stages token check, extraction, chunking,
\* embedding, index persistence, answering in that order and each at most
\* once; a request still running has entered exactly the stages before its
\* position and none of them raised; a 200 response is sent only after all six.
C3_StagesInOrder ==
    \A r \in Requests :
        /\ IsPrefix(StageTrace(r), StageOrder)
        /\ ~Done(r) => /\ Len(StageTrace(r)) = StagesEntered(pc[r])
                       /\ raised[r] = <<>>
        /\ response[r].status = 200 => /\ StageTrace(r) = StageOrder
                                       /\ raised[r] = <<>>

C3_Witness ==
    \E r \in Requests : response[r].status = 200 /\ StageTrace(r) = StageOrder

\* C4: an exception raised in a stage ends the request at once: the response
\* is 500 with detail "Processing failed: " followed by the exception's
\* message, and from then on no call is made for the request and its response
\* does not change.
C4_ExceptionIsTerminal ==
    /\ [](\A r \in Requests :
            raised[r] # <<>> =>
               /\ Done(r)
               /\ Len(raised[r]) = 1
               /\ response[r] =
                     [status |-> 500,
                      detail |-> [prefix |-> "Processing failed: ",
                                  text |-> raised[r][1].text,
                                  arg |-> raised[r][1].arg]])
    /\ [][\A r \in Requests :
            raised[r] # <<>> =>
               /\ calls'[r] = calls[r]
               /\ response'[r] = response[r]
               /\ pc'[r] = pc[r]]_vars

C4_Witness ==
    \E r \in Requests :
        /\ raised[r] = <<Exc("embedding failed", <<>>)>>
        /\ StageTrace(r) = SubSeq(StageOrder, 1, 4)
        /\ response[r].status = 500

\* the extension the claim derives for a document: that of the URL path,
\* lower-cased, ".pdf" when the path has none
DerivedExt(url) == IF Lower(SplitExt(url)) = <<>> THEN DotPdf ELSE Lower(SplitExt(url))

UnsupportedDetail(ext) ==
    [prefix |-> "Processing failed: ", text |-> "Unsupported file type: ", arg |-> ext]

BehindExtension == {"PyMuPDFLoader", "OpenAIEmbeddings", "completion"}

\* C5 as stated: once extract_text_only has been called for a document whose
\* derived extension is unsupported, the request fails with the error naming
\* that extension, and the PDF parser, the embedding service and the
\* completion service are never called for it.
C5_UnsupportedNamesExtension ==
    \A r \in Requests :
        ("extract_text_only" \in Fns(r)
            /\ DerivedExt(request[r].documents) \notin SupportedExts) =>
            /\ Fns(r) \cap BehindExtension = {}
            /\ pc[r] \in {"convert", "done"}
            /\ Done(r) =>
                  /\ response[r].status = 500
                  /\ response[r].detail = UnsupportedDetail(DerivedExt(request[r].documents))

\* C5 as amended: the request fails before the PDF parser, the embedding
\* service or the completion service is called; the error names the
\* extension when download_file returned, and is the download's own error
\* when it did not.
C5_UnsupportedFailsEarly ==
    \A r \in Requests :
        ("extract_text_only" \in Fns(r)
            /\ DerivedExt(request[r].documents) \notin SupportedExts) =>
            /\ Fns(r) \cap BehindExtension = {}
            /\ pc[r] \in {"convert", "done"}
            /\ Done(r) =>
                  /\ response[r].status = 500
                  /\ response[r].detail =
                        IF local[r].source # <<>>
                        THEN UnsupportedDetail(DerivedExt(request[r].documents))
                        ELSE [prefix |-> "Processing failed: ",
                              text |-> "download failed", arg |-> <<>>]

C5_Witness ==
    \E r \in Requests :
        /\ Done(r)
        /\ request[r].documents = <<"/", "d", ".", "T", "X", "T">>
        /\ response[r].status = 500
        /\ response[r].detail = UnsupportedDetail(DotTxt)

\* a name ends in ".pdf", whatever the case of its letters
EndsInPdfAnyCase(name) ==
    /\ Len(name) >= 4
    /\ name[Len(name) - 3] = "."
    /\ name[Len(name) - 2] \in {"p", "P"}
    /\ name[Len(name) - 1] \in {"d", "D"}
    /\ name[Len(name)] \in {"f", "F"}

\* C6: once process_pdf_zip has run on a downloaded archive, the file to be
\* parsed is the extraction, under the temporary directory, of the first
\* entry of the listing whose name ends in .pdf in any case; with no such
\* entry the request has failed with "No PDF found in zip file." and the PDF
\* parser was not called.
C6_ZipFirstPdf ==
    \A r \in Requests :
        ("process_pdf_zip" \in Fns(r) /\ fs[local[r].source].body.kind = "zip") =>
            LET es == fs[local[r].source].body.entries
                pdfs == {i \in 1..Len(es) : EndsInPdfAnyCase(es[i])}
            IN IF pdfs = {}
               THEN /\ Done(r)
                    /\ response[r].status = 500
                    /\ response[r].detail =
                          [prefix |-> "Processing failed: ",
                           text |-> "No PDF found in zip file.", arg |-> <<>>]
                    /\ "PyMuPDFLoader" \notin Fns(r)
               ELSE /\ \E i \in pdfs :
                          /\ \A j \in pdfs : i <= j
                          /\ local[r].file_path = TmpDir \o <<"/">> \o es[i]
                    /\ local[r].file_path \in DOMAIN fs
                    /\ \A k \in 1..Len(raised[r]) :
                          raised[r][k].text # "No PDF found in zip file."

C6_Witness ==
    \E r \in Requests :
        /\ "process_pdf_zip" \in Fns(r)
        /\ fs[local[r].source].body = Zip(<<<<"B", ".", "P", "D", "F">>, <<"a">> \o DotPdf>>)
        /\ local[r].file_path = <<"/", "t", "m", "p", "/", "B", ".", "P", "D", "F">>

\* the completion calls made for request r, in order
CompletionCalls(r) == SelectSeq(calls[r], LAMBDA c : c.fn = "completion")

\* C7: a finished request has either a 200 response with one answer per
\* question or an error response with no answers in it, and the completion
\* calls made for it are for its questions in order, each question at most
\* once.
C7_NoPartialSuccess ==
    \A r \in Requests :
        /\ Done(r) =>
              \/ /\ response[r].status = 200
                 /\ Len(response[r].answers) = Len(request[r].questions)
              \/ /\ response[r].status \in {401, 403, 500}
                 /\ "answers" \notin DOMAIN response[r]
        /\ Len(CompletionCalls(r)) <= Len(request[r].questions)
        /\ \A k \in 1..Len(CompletionCalls(r)) :
              CompletionCalls(r)[k].arg = request[r].questions[k]

C7_Witness ==
    \E r \in Requests :
        /\ Done(r)
        /\ response[r].status = 500
        /\ raised[r] = <<Exc("completion failed", <<>>)>>
        /\ Len(local[r].answers) = 1
        /\ Len(request[r].questions) = 2

\* C8: embed_chunks returns no index for no chunks without calling the
\* embedding service, and save_faiss_index and query_pipeline are never
\* invoked with that null index.
C8_NullIndexHandled ==
    \A r \in Requests :
        /\ ("embed_chunks" \in Fns(r) /\ local[r].chunks = <<>>) =>
              /\ local[r].vectorstore.isNone
              /\ "OpenAIEmbeddings" \notin Fns(r)
        /\ \A i \in 1..Len(calls[r]) :
              calls[r][i].fn \in {"save_faiss_index", "query_pipeline"} =>
                 calls[r][i].arg # "None"

\* C9: every directory under indexes/ was created by exactly one request and,
\* once that request has finished, holds the serialized index.
C9_IndexDirsComplete ==
    \A d \in DOMAIN indexes :
        /\ Cardinality(indexes[d].creators) = 1
        /\ \A r \in indexes[d].creators : Done(r) => indexes[d].files = IndexFiles

\* C10: no path is written by two requests, no index directory is shared, and
\* the file a request parses was written by that request.
C10_NoSharedPaths ==
    /\ \A p \in DOMAIN writers : Cardinality(writers[p]) <= 1
    /\ \A d \in DOMAIN indexes : Cardinality(indexes[d].creators) <= 1
    /\ \A r \in Requests : local[r].read_from \in {"", r}

\* C11: the middleware lets a request through exactly when verify_token
\* accepts its header: a request that went past the middleware is never
\* refused by verify_token, and a request the middleware answered itself
\* would have been refused by verify_token too.
C11_ChecksAgree ==
    \A r \in Requests :
        /\ pc[r] \notin {"new", "middleware"} =>
              (MiddlewareVerdict(request[r].header) = 0
                  <=> VerifyTokenVerdict(request[r].header) = "")
        /\ "verify_token" \in Fns(r) =>
              \A k \in 1..Len(raised[r]) :
                  raised[r][k] \notin {HttpExc401("Invalid token"),
                                       HttpExc401("Missing or invalid token")}

====
